---- MODULE Spec2Model ----
(***************************************************************************)
(* Time-series store of the aquaponics sensor logger (pi/logger.py).       *)
(*                                                                         *)
(* The series file, the temporary files of save_data and the calls of a    *)
(* process (append_reading, save_data, load_data, prune_data) are modelled *)
(* at the granularity of the file-system operations the code performs.     *)
(* Timestamps are kept as (instant, spelling) pairs; every comparison the  *)
(* code makes is made on the character string the pair is formatted to.    *)
(***************************************************************************)
EXTENDS Integers, Sequences, FiniteSets, TLC

(***************************************************************************)
(* Bounds of the model.                                                    *)
(***************************************************************************)
\* the clock stops ticking at this instant
MaxNow == 21
\* append_reading is called only while the file holds no more entries
MaxLen == 2
\* temporary files a behaviour may leave behind
MaxOrphans == 1

(***************************************************************************)
(* Time.  An instant t is a half-step of the clock: day t \div 2 of August *)
(* 2025 at 00:00:00, plus 500000 microseconds when t is odd.               *)
(***************************************************************************)
Day(t) == t \div 2
Micro(t) == (t % 2) * 500000

\* timedelta(days = w) subtracted from an instant
MinusDays(t, w) == t - 2 * w

Digit(d) == 48 + d
Digits2(n) == << Digit(n \div 10), Digit(n % 10) >>
Digits6(n) ==
    << Digit(n \div 100000), Digit((n \div 10000) % 10), Digit((n \div 1000) % 10),
       Digit((n \div 100) % 10), Digit((n \div 10) % 10), Digit(n % 10) >>

\* datetime.isoformat() of a naive datetime: YYYY-MM-DDTHH:MM:SS[.ffffff],
\* the fraction left out when the microsecond is 0
NaiveIso(t) ==
    << 50, 48, 50, 53, 45, 48, 56, 45 >> \o Digits2(Day(t))
       \o << 84, 48, 48, 58, 48, 48, 58, 48, 48 >>
       \o (IF Micro(t) = 0 THEN << >> ELSE << 46 >> \o Digits6(Micro(t)))

\* datetime.now(timezone.utc).isoformat(): the offset is spelled +00:00
isoformat(t) == NaiveIso(t) \o << 43, 48, 48, 58, 48, 48 >>

\* datetime.utcnow().isoformat() + "Z"
isoformatZ(t) == NaiveIso(t) \o << 90 >>

\* Python's str < str: by code point, a proper prefix is smaller
RECURSIVE StrLess(_, _)
StrLess(a, b) ==
    IF b = << >> THEN FALSE
    ELSE IF a = << >> THEN TRUE
    ELSE IF Head(a) # Head(b) THEN Head(a) < Head(b)
    ELSE StrLess(Tail(a), Tail(b))

StrGE(a, b) == ~StrLess(a, b)

(***************************************************************************)
(* Readings.  dict: the value is a dict; has: it has a 'timestamp' key;    *)
(* ts: the value under that key - a string (an instant in one of the two   *)
(* spellings the repository writes, or the string "invalid-timestamp" of   *)
(* the tests, spelling "bad") or null; ph: the payload - a number, null, a *)
(* string ("text"), or an object json cannot serialise.                    *)
(***************************************************************************)
NullTs == [kind |-> "null", t |-> 0, sp |-> "-"]
StrTs(t, sp) == [kind |-> "str", t |-> t, sp |-> sp]

\* "invalid-timestamp"
InvalidTimestamp ==
    << 105, 110, 118, 97, 108, 105, 100, 45, 116, 105, 109, 101, 115, 116, 97,
       109, 112 >>

TsString(ts) ==
    IF ts.sp = "iso" THEN isoformat(ts.t)
    ELSE IF ts.sp = "Z" THEN isoformatZ(ts.t)
    ELSE InvalidTimestamp

NotADict == [dict |-> FALSE, has |-> FALSE, ts |-> NullTs, ph |-> "null"]
NoTimestamp == [dict |-> TRUE, has |-> FALSE, ts |-> NullTs, ph |-> "7.0"]
Rd(t, sp, ph) == [dict |-> TRUE, has |-> TRUE, ts |-> StrTs(t, sp), ph |-> ph]
NullStamped == [dict |-> TRUE, has |-> TRUE, ts |-> NullTs, ph |-> "7.0"]

\* reading.get('timestamp', ''), for a dict
Key(r) ==
    IF ~r.has THEN [str |-> TRUE, s |-> << >>]
    ELSE IF r.ts.kind = "null" THEN [str |-> FALSE, s |-> << >>]
    ELSE [str |-> TRUE, s |-> TsString(r.ts)]

Range(s) == {s[i] : i \in 1..Len(s)}

(***************************************************************************)
(* list.sort(key=lambda x: x.get('timestamp', '')): stable, ascending by   *)
(* the key strings.  It raises AttributeError when an element is not a     *)
(* dict and TypeError when two keys are compared and one is not a string.  *)
(***************************************************************************)
SortRaises(d) ==
    \/ \E i \in 1..Len(d) : ~d[i].dict
    \/ Len(d) >= 2 /\ \E i \in 1..Len(d) : ~Key(d[i]).str

\* x goes behind every element whose key is not greater than its own
RECURSIVE InsertByKey(_, _)
InsertByKey(x, s) ==
    IF s = << >> THEN << x >>
    ELSE IF StrLess(Key(x).s, Key(Head(s)).s) THEN << x >> \o s
    ELSE << Head(s) >> \o InsertByKey(x, Tail(s))

RECURSIVE SortFrom(_, _)
SortFrom(d, acc) ==
    IF d = << >> THEN acc ELSE SortFrom(Tail(d), InsertByKey(Head(d), acc))

SortByTimestamp(d) == SortFrom(d, << >>)

(***************************************************************************)
(* DataLogger.prune_data at clock reading t with window_days = w.          *)
(***************************************************************************)
\* the loop's reading.get and its >= raise on a non-dict and on a non-string
PruneRaises(d, w) ==
    /\ d # << >>
    /\ w > 0
    /\ \E i \in 1..Len(d) : ~d[i].dict \/ ~Key(d[i]).str

cutoff_iso(t, w) == isoformat(MinusDays(t, w))

KeptByPrune(r, t, w) == StrGE(Key(r).s, cutoff_iso(t, w))

\* mutant: the window_days <= 0 test is forgotten
prune_data_always(d, w, t) ==
    IF d = << >> THEN d ELSE SelectSeq(d, LAMBDA r : KeptByPrune(r, t, w))

prune_data(d, w, t) ==
    IF d = << >> \/ w <= 0 THEN d
    ELSE SelectSeq(d, LAMBDA r : KeptByPrune(r, t, w))

\* mutant: the series is pruned before the reading is appended
PruneThenAppend(l, r, w, t) == Append(prune_data(l, w, t), r)

\* mutant: the series is started afresh instead of appended to
AppendOnlyNew(l, r, w, t) == prune_data(<< r >>, w, t)

\* data.append(reading); data = self.prune_data(data) (logger.py 116-119)
AppendAndPrune(l, r, w, t) == prune_data(Append(l, r), w, t)

(***************************************************************************)
(* The file system: the series file and the temporary file of a save.      *)
(***************************************************************************)
Absent == [kind |-> "absent", data |-> << >>]
\* content json.load cannot parse
Garbage == [kind |-> "garbage", data |-> << >>]
\* a JSON document whose root is an object
JsonObject == [kind |-> "object", data |-> << >>]
\* a complete JSON array
ArrayFile(d) == [kind |-> "array", data |-> d]
\* a file holding the first part of a JSON array only
PartialFile == [kind |-> "partial", data |-> << >>]

NoTmp == [kind |-> "none", data |-> << >>]
\* mkstemp leaves an empty file; a dump that stops leaves a truncated one
PartialTmp == [kind |-> "partial", data |-> << >>]
CompleteTmp(d) == [kind |-> "complete", data |-> d]

\* what os.rename makes of the target
Renamed(t) == IF t.kind = "complete" THEN ArrayFile(t.data) ELSE PartialFile

Serialisable(d) == \A i \in 1..Len(d) : d[i].ph # "obj"

\* mutant: the JSONDecodeError handler is missing
LoadRaisesUncaught(f) ==
    f.kind = "garbage" \/ (f.kind = "array" /\ SortRaises(f.data))

(***************************************************************************)
(* DataLogger.load_data.  Absent file, unparseable content and a non-list  *)
(* root give []; the sort of a parsed list is outside nothing but the      *)
(* JSONDecodeError/IOError handler, so what it raises leaves the call.     *)
(***************************************************************************)
LoadRaises(f) == f.kind = "array" /\ SortRaises(f.data)

\* mutant: the loaded series is handed back newest first
load_data_reversed(f) ==
    IF f.kind = "array"
       THEN [i \in 1..Len(f.data) |->
                SortByTimestamp(f.data)[Len(f.data) + 1 - i]]
       ELSE << >>

load_data(f) == IF f.kind = "array" THEN SortByTimestamp(f.data) ELSE << >>

\* mutant: the 'timestamp' key is not asked for
ValidReadingAnyDict(r) == r.dict

\* append_reading's check of its argument
ValidReading(r) == r.dict /\ r.has


(***************************************************************************)
(* Sensor values.  Voltages are in millivolts, temperatures in thousandths *)
(* of a degree Celsius (the unit of the t= field of the 1-Wire device      *)
(* file), pH in thousandths, conductivity in hundredths of a uS/cm and TDS *)
(* in tenths of a ppm; the float arithmetic of the conversions is done in  *)
(* these fixed-point units.                                                *)
(***************************************************************************)
None == [k |-> "none", v |-> 0]
Num(n) == [k |-> "num", v |-> n]
NaN == [k |-> "nan", v |-> 0]
Inf == [k |-> "inf", v |-> 0]

\* an exception leaving a call
Exc(name) == [k |-> name, v |-> 0]
Exceptions == {"ValueError", "OSError", "FileNotFoundError", "RuntimeError",
               "ImportError", "NotImplementedError"}
IsExc(x) == x.k \in Exceptions

\* lo <= x <= hi of Python: False for NaN, and for an infinity here
Between(x, lo, hi) == x.k = "num" /\ lo <= x.v /\ x.v <= hi

\* round(n / d) to the nearest integer, halves to the even one
RoundDiv(n, d) ==
    LET q == n \div d
        r == n % d
    IN  IF 2 * r < d THEN q
        ELSE IF 2 * r > d THEN q + 1
        ELSE IF q % 2 = 0 THEN q ELSE q + 1

(***************************************************************************)
(* conversions.py                                                          *)
(***************************************************************************)
\* mutant: the linear result is rounded before its range is tested
ph_from_voltage_rounded_first(voltage, slope, intercept) ==
    IF voltage.k = "none" THEN None
    ELSE IF ~Between(voltage, 0, 5000) THEN None
    ELSE IF slope = 0 THEN None
    ELSE LET phv == Num(RoundDiv(slope * voltage.v, 1000) + intercept)
         IN  IF ~Between(phv, 0, 14000) THEN None ELSE phv

\* ph_from_voltage(voltage, slope, intercept), slope and intercept in
\* thousandths: slope * voltage + intercept is exact in millionths, its
\* range is tested (46) and the value is rounded to thousandths after (49)
ph_from_voltage(voltage, slope, intercept) ==
    IF voltage.k = "none" THEN None
    ELSE IF ~Between(voltage, 0, 5000) THEN None
    ELSE IF slope = 0 THEN None
    ELSE LET raw == slope * voltage.v + 1000 * intercept
         IN  IF raw < 0 \/ raw > 14000000 THEN None
             ELSE Num(RoundDiv(raw, 1000))

voltage_to_ph(voltage, slope, intercept) == ph_from_voltage(voltage, slope, intercept)

\* ec_from_voltage(voltage, temp_c): the compensation coefficient
\* 1 + 0.02 * (temp_c - 25) is (temp_c + 25000) / 50000 in thousandths of a
\* degree; the cubic is evaluated on the compensated voltage in centivolts
ec_from_voltage(voltage, t) ==
    IF voltage.k = "none" \/ t.k = "none" THEN None
    ELSE IF ~Between(voltage, 0, 5000) \/ ~Between(t, -10000, 60000) THEN None
    ELSE LET c == IF t.v + 25000 <= 0 THEN 50000 ELSE t.v + 25000
             x == ((voltage.v * 50000) \div c) \div 10
             x2 == (x * x) \div 100
             x3 == (x2 * x) \div 100
             ec == (1334 * x3) \div 10 - (25586 * x2) \div 100 + (85739 * x) \div 100
         IN  Num(IF ec < 0 THEN 0 ELSE ec)

\* tds_from_ec(ec_uS_cm, multiplier), the multiplier in tenths.  Every
\* comparison with a NaN is False, so a NaN passes the tests of 128 and 135
\* and round(nan, 1) is returned; an infinity fails one of the two tests
tds_from_ec(ec, multiplier) ==
    IF ec.k = "none" THEN None
    ELSE IF ec.k = "nan" THEN (IF multiplier <= 0 THEN None ELSE NaN)
    ELSE IF ec.k = "inf" THEN None
    ELSE IF ec.v < 0 \/ multiplier <= 0 THEN None
    ELSE IF ec.v * multiplier > 5000000 THEN None
    ELSE Num(RoundDiv(ec.v * multiplier, 100))

voltage_to_tds(voltage, t, multiplier) ==
    LET ec == ec_from_voltage(voltage, t)
    IN  IF ec.k = "none" THEN None ELSE tds_from_ec(ec, multiplier)

\* mutant: the lower limit is not tested
validate_upper_only(value, min_val, max_val) ==
    value.k = "num" /\ value.v <= max_val

\* validate_sensor_range(value, min_val, max_val): False for None, NaN and
\* the infinities
validate_sensor_range(value, min_val, max_val) ==
    /\ value.k = "num"
    /\ min_val <= value.v
    /\ value.v <= max_val

(***************************************************************************)
(* hal.py                                                                  *)
(***************************************************************************)
Channels == 0..3

\* MockADC.mock_voltages
mock_voltages(channel) ==
    IF channel = 0 THEN 2500 ELSE IF channel = 1 THEN 1800 ELSE 0

\* MockADC.read_voltage(channel)
MockReadVoltage(channel) ==
    IF channel \notin Channels THEN Exc("ValueError")
    ELSE Num(mock_voltages(channel))

\* RealADS1115.read_voltage(channel), the bus transaction yielding bus
RealReadVoltage(channel, bus) ==
    IF channel \notin Channels THEN Exc("ValueError") ELSE bus

\* MockOneWireTemp.mock_temp
mock_temp == 22500

\* the 1-Wire device as a read finds it
Device(state, milli) == [state |-> state, milli |-> milli]
NoDevice == Device("no_device", 0)
Vanished == Device("vanished", 0)
IoError == Device("io_error", 0)
OneLine == Device("one_line", 0)
CrcNo == Device("crc_no", 0)
NoField == Device("no_field", 0)
Unparseable == Device("unparseable", 0)
NanField == Device("nan", 0)
Reads(milli) == Device("ok", milli)

\* RealDS18B20.read_celsius(): no device file matches (90-91); open raises
\* FileNotFoundError (caught, 114) or another OSError (not caught); fewer
\* than two lines or no YES (100-101); no t= (106-107); float() raises
\* ValueError (caught); float() / 1000.0
read_celsius(dev) ==
    IF dev.state = "no_device" THEN None
    ELSE IF dev.state = "vanished" THEN None
    ELSE IF dev.state = "io_error" THEN Exc("OSError")
    ELSE IF dev.state \in {"one_line", "crc_no"} THEN None
    ELSE IF dev.state = "no_field" THEN None
    ELSE IF dev.state = "unparseable" THEN None
    ELSE IF dev.state = "nan" THEN NaN
    ELSE Num(dev.milli)

\* RealADS1115.__init__: hw is what the imports and the bus initialisation
\* do; an ImportError becomes a RuntimeError, anything else leaves as it is
RealADS1115Init(hw) ==
    IF hw = "ok" THEN "real"
    ELSE IF hw = "ImportError" THEN "RuntimeError"
    ELSE hw

\* create_adc(address, mock): "mock", "real" or the exception it raises;
\* NotImplementedError is a RuntimeError
create_adc(mock, env, hw) ==
    IF mock \/ env THEN "mock"
    ELSE IF RealADS1115Init(hw) \in {"RuntimeError", "NotImplementedError"}
            THEN "mock"
    ELSE RealADS1115Init(hw)

\* create_temp_sensor(mock), w1 telling whether /sys/bus/w1/devices/ exists
create_temp_sensor(mock, env, w1) ==
    IF mock \/ env THEN "mock"
    ELSE IF ~w1 THEN "mock"
    ELSE "real"

(***************************************************************************)
(* sensors.py: the calibration defaults and ranges of AquaponicsSensors.   *)
(***************************************************************************)
ph_slope == -3333
ph_intercept == 12500
tds_multiplier == 5
ph_range == << 0, 14000 >>
tds_range == << 0, 50000 >>
temp_range == << -10000, 60000 >>
\* temp_c = 25.0 of read_tds
reference_temp == 25000

(***************************************************************************)
(* Inputs.                                                                 *)
(***************************************************************************)
Procs == {"w1", "w2"}

\* the writer of the sequential specification
Sequential == {"w1"}

\* instants of the timestamps appended, and those also appended in the
\* spelling of the older logger
SampleInstants == {18, 19}
OlderInstants == {18}

\* arguments of append_reading at clock reading t; the last one is the
\* Reading the orchestrator assembles at t
AppendInputs(t) ==
    {NotADict, NoTimestamp, NullStamped, Rd(20, "iso", "obj")}
        \cup {Rd(i, "iso", "7.0") : i \in SampleInstants}
        \cup {Rd(i, "Z", "7.0") : i \in OlderInstants}
        \cup {Rd(t, "iso", "null")}

\* window_days of the DataLogger of an append_reading call, and of a
\* prune_data call
AppendWindows == {0, 1}
PruneWindows == {-1, 0, 1}

\* arguments of a direct save_data call
SaveInputs ==
    { << >>,
      << Rd(21, "iso", "7.0"), Rd(20, "iso", "7.0") >>,
      << Rd(19, "Z", "7.0"), Rd(18, "Z", "7.0") >>,
      << Rd(20, "iso", "7.0"), NullStamped >>,
      << NullStamped >>,
      << NotADict >>,
      << Rd(20, "iso", "obj") >> }

\* arguments of a direct prune_data call
PruneInputs ==
    { << >>,
      << Rd(21, "iso", "7.0"), Rd(18, "iso", "7.0"), Rd(19, "iso", "7.0") >>,
      << Rd(18, "Z", "7.0"), Rd(20, "iso", "7.0") >>,
      << Rd(19, "Z", "7.0"), Rd(18, "iso", "7.0") >>,
      << NoTimestamp, Rd(21, "iso", "null") >>,
      << NullStamped >> }

\* what the series file may hold when the process starts
InitFiles ==
    { Absent, Garbage, JsonObject, ArrayFile(<< >>),
      ArrayFile(<< Rd(21, "iso", "7.0"), Rd(20, "iso", "7.0") >>),
      ArrayFile(<< NotADict >>) }

(***************************************************************************)
(* State.                                                                  *)
(***************************************************************************)
VARIABLES
    now,        \* the clock
    file,       \* the series file
    orphans,    \* temporary files left in the directory by finished calls
    pc,         \* where each process is in its call
    op,         \* the operation each process is in
    reading,    \* append_reading's argument
    wdays,      \* self.window_days of the DataLogger of the call
    tprune,     \* the clock reading prune_data took
    loaded,     \* what load_data returned to append_reading
    data,       \* the list handed to save_data, sorted in place by it
    tmp,        \* the temporary file of the save in progress
    pre,        \* the series file as the call (and its save) found it
    steps,      \* the calls made so far by the operation in progress
    ret,        \* what the finished call returned
    track,      \* the appends of this behaviour are being recorded
    hist,       \* the readings appended successfully so far, when recorded
    sens,       \* the AquaponicsSensors object and how it was constructed
    spc,        \* where read_all is
    temp_c,     \* read_all's temp_c
    ph,         \* read_all's ph
    tds,        \* read_all's tds
    acq,        \* the hardware reads of the read_all in progress
    comp,       \* the temp_c that read_tds gave to voltage_to_tds
    out,        \* what read_all returned
    last,       \* the timestamp of the Reading read_all returned before
    calc,       \* the last call of a conversion function and its result
    diag,       \* what test_sensors returned
    report      \* what the last report on the series file returned

storevars == << now, file, orphans, pc, op, reading, wdays, tprune, loaded, data,
                tmp, pre, steps, ret, track, hist >>

hwvars == << sens, spc, temp_c, ph, tds, acq, comp, out >>

auxvars == << last, calc, diag, report >>

vars == << now, file, orphans, pc, op, reading, wdays, tprune, loaded, data,
           tmp, pre, steps, ret, track, hist,
           sens, spc, temp_c, ph, tds, acq, comp, out,
           last, calc, diag, report >>

NoRet == [kind |-> "none", b |-> FALSE, l |-> << >>]
RetBool(b) == [kind |-> "bool", b |-> b, l |-> << >>]
RetList(l) == [kind |-> "list", b |-> FALSE, l |-> l]
Raised == [kind |-> "raised", b |-> FALSE, l |-> << >>]

\* no AquaponicsSensors object yet
NoSensors ==
    [state |-> "none", ph_channel |-> 0, tds_channel |-> 0, adc |-> "none",
     temp |-> "none", mock |-> FALSE, env |-> FALSE, hw |-> "ok", w1 |-> FALSE]

NoReading == [kind |-> "none", t |-> 0, ph |-> None, tds |-> None, temp_c |-> None]

\* no conversion function called yet
NoCalc == [fn |-> "none", x |-> None, a |-> 0, b |-> 0, res |-> None]

\* one entry of the dict test_sensors returns, and the dict before the call
NoEntry == [status |-> "-", voltage |-> None, value |-> None]
NoDiag == [kind |-> "none", ph |-> NoEntry, temperature |-> NoEntry, tds |-> NoEntry]

\* no report asked for yet
NoReport ==
    [kind |-> "none", valid |-> FALSE, errors |-> 0, chrono |-> FALSE,
     total |-> 0, valid_readings |-> 0]

HwIdle ==
    /\ sens = NoSensors
    /\ spc = "idle"
    /\ temp_c = None
    /\ ph = None
    /\ tds = None
    /\ acq = << >>
    /\ comp = None
    /\ out = NoReading
    /\ last = 0
    /\ calc = NoCalc
    /\ diag = NoDiag
    /\ report = NoReport

Idle ==
    /\ HwIdle
    /\ now = 20
    /\ orphans = 0
    /\ pc = [p \in Procs |-> "idle"]
    /\ op = [p \in Procs |-> "none"]
    /\ reading = [p \in Procs |-> NotADict]
    /\ wdays = [p \in Procs |-> 0]
    /\ tprune = [p \in Procs |-> 0]
    /\ loaded = [p \in Procs |-> << >>]
    /\ data = [p \in Procs |-> << >>]
    /\ tmp = [p \in Procs |-> NoTmp]
    /\ pre = [p \in Procs |-> Absent]
    /\ steps = [p \in Procs |-> << >>]
    /\ ret = [p \in Procs |-> NoRet]
    /\ hist = << >>

Init ==
    /\ Idle
    /\ file \in InitFiles
    /\ track = FALSE

\* a stopped process takes no further step
Live(p) == op[p] # "crashed"

\* the clock advances
Tick ==
    /\ now < MaxNow
    /\ UNCHANGED hwvars
    /\ UNCHANGED auxvars
    /\ now' = now + 1
    /\ UNCHANGED << file, orphans, pc, op, reading, wdays, tprune, loaded, data,
                    tmp, pre, steps, ret, track, hist >>

(***************************************************************************)
(* append_reading(r) of a DataLogger with window_days = w.                 *)
(***************************************************************************)
\* the call and the check of the argument (logger.py 108-110)
AppendCall(p, r, w) ==
    /\ Live(p)
    /\ UNCHANGED hwvars
    /\ UNCHANGED auxvars
    /\ pc[p] = "idle"
    /\ file.kind = "array" => Len(file.data) <= MaxLen
    /\ op' = [op EXCEPT ![p] = "append"]
    /\ reading' = [reading EXCEPT ![p] = r]
    /\ wdays' = [wdays EXCEPT ![p] = w]
    /\ pre' = [pre EXCEPT ![p] = file]
    /\ IF ValidReading(r)
          THEN /\ pc' = [pc EXCEPT ![p] = "load"]
               /\ ret' = ret
          ELSE /\ pc' = [pc EXCEPT ![p] = "done"]
               /\ ret' = [ret EXCEPT ![p] = RetBool(FALSE)]
    /\ UNCHANGED << now, file, orphans, tprune, loaded, data, tmp, steps, track, hist >>

\* data = self.load_data(); data.append(reading); data = self.prune_data(data)
AppendLoadPrune(p) ==
    /\ Live(p)
    /\ UNCHANGED hwvars
    /\ UNCHANGED auxvars
    /\ pc[p] = "load"
    /\ IF LoadRaises(file)
          THEN /\ pc' = [pc EXCEPT ![p] = "done"]
               /\ ret' = [ret EXCEPT ![p] = Raised]
               /\ steps' = [steps EXCEPT ![p] = << "load_data" >>]
               /\ UNCHANGED << loaded, data, tprune, track, hist >>
          ELSE LET l == load_data(file)
               IN  /\ loaded' = [loaded EXCEPT ![p] = l]
                   /\ tprune' = [tprune EXCEPT ![p] = now]
                   /\ steps' = [steps EXCEPT ![p] =
                                   << "load_data", "append", "prune_data" >>]
                   /\ IF PruneRaises(Append(l, reading[p]), wdays[p])
                         THEN /\ pc' = [pc EXCEPT ![p] = "done"]
                              /\ ret' = [ret EXCEPT ![p] = Raised]
                              /\ data' = data
                         ELSE /\ pc' = [pc EXCEPT ![p] = "sort"]
                              /\ ret' = ret
                              /\ data' = [data EXCEPT ![p] =
                                    AppendAndPrune(l, reading[p], wdays[p], now)]
    /\ UNCHANGED << now, file, orphans, op, reading, wdays, tmp, pre, track, hist >>

(***************************************************************************)
(* save_data(d).                                                           *)
(***************************************************************************)
SaveCall(p, d) ==
    /\ Live(p)
    /\ UNCHANGED hwvars
    /\ UNCHANGED auxvars
    /\ pc[p] = "idle"
    /\ op' = [op EXCEPT ![p] = "save"]
    /\ data' = [data EXCEPT ![p] = d]
    /\ pre' = [pre EXCEPT ![p] = file]
    /\ pc' = [pc EXCEPT ![p] = "sort"]
    /\ UNCHANGED << now, file, orphans, reading, wdays, tprune, loaded, tmp,
                    steps, ret, track, hist >>

\* data.sort(...) (logger.py 70); what it raises is caught at line 94
SaveSort(p) ==
    /\ Live(p)
    /\ UNCHANGED hwvars
    /\ UNCHANGED auxvars
    /\ pc[p] = "sort"
    /\ steps' = [steps EXCEPT ![p] = Append(@, "save_data")]
    /\ pre' = [pre EXCEPT ![p] = file]
    /\ IF SortRaises(data[p])
          THEN /\ pc' = [pc EXCEPT ![p] = "done"]
               /\ ret' = [ret EXCEPT ![p] = RetBool(FALSE)]
               /\ data' = data
          ELSE /\ pc' = [pc EXCEPT ![p] = "mkstemp"]
               /\ ret' = ret
               /\ data' = [data EXCEPT ![p] = SortByTimestamp(@)]
    /\ UNCHANGED << now, file, orphans, op, reading, wdays, tprune, loaded, tmp, track, hist >>

\* tempfile.mkstemp(suffix='.json', dir=parent): a new, empty file
Mkstemp(p) ==
    /\ Live(p)
    /\ UNCHANGED hwvars
    /\ UNCHANGED auxvars
    /\ pc[p] = "mkstemp"
    /\ tmp' = [tmp EXCEPT ![p] = PartialTmp]
    /\ pc' = [pc EXCEPT ![p] = "dump"]
    /\ steps' = [steps EXCEPT ![p] = Append(@, "mkstemp")]
    /\ UNCHANGED << now, file, orphans, op, reading, wdays, tprune, loaded, data,
                    pre, ret, track, hist >>

\* mkstemp raises (no space, no permission): caught at line 94
MkstempFails(p) ==
    /\ Live(p)
    /\ UNCHANGED hwvars
    /\ UNCHANGED auxvars
    /\ pc[p] = "mkstemp"
    /\ pc' = [pc EXCEPT ![p] = "done"]
    /\ ret' = [ret EXCEPT ![p] = RetBool(FALSE)]
    /\ steps' = [steps EXCEPT ![p] = Append(@, "mkstemp_failed")]
    /\ UNCHANGED << now, file, orphans, op, reading, wdays, tprune, loaded, data,
                    tmp, pre, track, hist >>

\* mutant: the rename is reached before the dump has been written out
DumpUnflushed(p) ==
    /\ Live(p)
    /\ UNCHANGED hwvars
    /\ UNCHANGED auxvars
    /\ pc[p] = "dump"
    /\ Serialisable(data[p])
    /\ pc' = [pc EXCEPT ![p] = "rename"]
    /\ steps' = [steps EXCEPT ![p] = Append(@, "dump")]
    /\ UNCHANGED << now, file, orphans, op, reading, wdays, tprune, loaded, data,
                    tmp, pre, ret, track, hist >>

\* mutant: the dump is written to the series file itself
DumpToTarget(p) ==
    /\ Live(p)
    /\ UNCHANGED hwvars
    /\ UNCHANGED auxvars
    /\ pc[p] = "dump"
    /\ Serialisable(data[p])
    /\ file' = ArrayFile(data[p])
    /\ tmp' = [tmp EXCEPT ![p] = CompleteTmp(data[p])]
    /\ pc' = [pc EXCEPT ![p] = "rename"]
    /\ steps' = [steps EXCEPT ![p] = Append(@, "dump")]
    /\ UNCHANGED << now, orphans, op, reading, wdays, tprune, loaded, data,
                    pre, ret, track, hist >>

\* mutant: the temporary file has one fixed name, so that the dump lands in
\* the temporary file of every save in progress
DumpShared(p) ==
    /\ Live(p)
    /\ UNCHANGED hwvars
    /\ UNCHANGED auxvars
    /\ pc[p] = "dump"
    /\ Serialisable(data[p])
    /\ tmp' = [q \in Procs |-> IF q = p \/ tmp[q].kind # "none"
                                   THEN CompleteTmp(data[p]) ELSE tmp[q]]
    /\ pc' = [pc EXCEPT ![p] = "rename"]
    /\ steps' = [steps EXCEPT ![p] = Append(@, "dump")]
    /\ UNCHANGED << now, file, orphans, op, reading, wdays, tprune, loaded, data,
                    pre, ret, track, hist >>

\* with os.fdopen(temp_fd, 'w') as f: json.dump(data, f, indent=2)
Dump(p) ==
    /\ Live(p)
    /\ UNCHANGED hwvars
    /\ UNCHANGED auxvars
    /\ pc[p] = "dump"
    /\ Serialisable(data[p])
    /\ tmp' = [tmp EXCEPT ![p] = CompleteTmp(data[p])]
    /\ pc' = [pc EXCEPT ![p] = "rename"]
    /\ steps' = [steps EXCEPT ![p] = Append(@, "dump")]
    /\ UNCHANGED << now, file, orphans, op, reading, wdays, tprune, loaded, data,
                    pre, ret, track, hist >>

\* json.dump meets a value it cannot serialise, or the write fails: the
\* temporary file is left truncated and the handler of line 86 runs
DumpFails(p) ==
    /\ Live(p)
    /\ UNCHANGED hwvars
    /\ UNCHANGED auxvars
    /\ pc[p] = "dump"
    /\ pc' = [pc EXCEPT ![p] = "cleanup"]
    /\ steps' = [steps EXCEPT ![p] = Append(@, "dump_failed")]
    /\ UNCHANGED << now, file, orphans, op, reading, wdays, tprune, loaded, data,
                    tmp, pre, ret, track, hist >>

\* os.rename(temp_path, self.data_file); return True
Rename(p) ==
    /\ Live(p)
    /\ UNCHANGED hwvars
    /\ UNCHANGED auxvars
    /\ pc[p] = "rename"
    /\ file' = Renamed(tmp[p])
    /\ tmp' = [tmp EXCEPT ![p] = NoTmp]
    /\ pc' = [pc EXCEPT ![p] = "done"]
    /\ ret' = [ret EXCEPT ![p] = RetBool(TRUE)]
    /\ hist' = IF track /\ op[p] = "append" THEN Append(hist, reading[p]) ELSE hist
    /\ steps' = [steps EXCEPT ![p] = Append(@, "rename")]
    /\ UNCHANGED << now, orphans, op, reading, wdays, tprune, loaded, data, pre,
                    track >>

\* os.rename raises
RenameFails(p) ==
    /\ Live(p)
    /\ UNCHANGED hwvars
    /\ UNCHANGED auxvars
    /\ pc[p] = "rename"
    /\ pc' = [pc EXCEPT ![p] = "cleanup"]
    /\ steps' = [steps EXCEPT ![p] = Append(@, "rename_failed")]
    /\ UNCHANGED << now, file, orphans, op, reading, wdays, tprune, loaded, data,
                    tmp, pre, ret, track, hist >>

\* mutant: the handler re-raises without removing the temporary file
CleanupSkipped(p) ==
    /\ Live(p)
    /\ UNCHANGED hwvars
    /\ UNCHANGED auxvars
    /\ pc[p] = "cleanup"
    /\ pc' = [pc EXCEPT ![p] = "done"]
    /\ ret' = [ret EXCEPT ![p] = RetBool(FALSE)]
    /\ steps' = [steps EXCEPT ![p] = Append(@, "unlink")]
    /\ UNCHANGED << now, file, orphans, op, reading, wdays, tprune, loaded, data,
                    tmp, pre, track, hist >>

\* os.unlink(temp_path); raise - caught at line 94, return False
Cleanup(p) ==
    /\ Live(p)
    /\ UNCHANGED hwvars
    /\ UNCHANGED auxvars
    /\ pc[p] = "cleanup"
    /\ tmp' = [tmp EXCEPT ![p] = NoTmp]
    /\ pc' = [pc EXCEPT ![p] = "done"]
    /\ ret' = [ret EXCEPT ![p] = RetBool(FALSE)]
    /\ steps' = [steps EXCEPT ![p] = Append(@, "unlink")]
    /\ UNCHANGED << now, file, orphans, op, reading, wdays, tprune, loaded, data,
                    pre, track, hist >>

\* os.unlink raises OSError, which lines 90-91 pass over: the temporary
\* file stays
CleanupFails(p) ==
    /\ Live(p)
    /\ UNCHANGED hwvars
    /\ UNCHANGED auxvars
    /\ pc[p] = "cleanup"
    /\ orphans < MaxOrphans
    /\ pc' = [pc EXCEPT ![p] = "done"]
    /\ ret' = [ret EXCEPT ![p] = RetBool(FALSE)]
    /\ steps' = [steps EXCEPT ![p] = Append(@, "unlink_failed")]
    /\ UNCHANGED << now, file, orphans, op, reading, wdays, tprune, loaded, data,
                    tmp, pre, track, hist >>

(***************************************************************************)
(* load_data() called on its own.                                          *)
(***************************************************************************)
LoadCall(p) ==
    /\ Live(p)
    /\ UNCHANGED hwvars
    /\ UNCHANGED auxvars
    /\ pc[p] = "idle"
    /\ op' = [op EXCEPT ![p] = "load"]
    /\ pre' = [pre EXCEPT ![p] = file]
    /\ steps' = [steps EXCEPT ![p] = << "load_data" >>]
    /\ pc' = [pc EXCEPT ![p] = "done"]
    /\ ret' = [ret EXCEPT ![p] =
                  IF LoadRaises(file) THEN Raised ELSE RetList(load_data(file))]
    /\ UNCHANGED << now, file, orphans, reading, wdays, tprune, loaded, data, tmp, track, hist >>

(***************************************************************************)
(* prune_data(d) called on its own, on a DataLogger with window_days = w.  *)
(***************************************************************************)
PruneCall(p, d, w) ==
    /\ Live(p)
    /\ UNCHANGED hwvars
    /\ UNCHANGED auxvars
    /\ pc[p] = "idle"
    /\ op' = [op EXCEPT ![p] = "prune"]
    /\ data' = [data EXCEPT ![p] = d]
    /\ wdays' = [wdays EXCEPT ![p] = w]
    /\ tprune' = [tprune EXCEPT ![p] = now]
    /\ pre' = [pre EXCEPT ![p] = file]
    /\ steps' = [steps EXCEPT ![p] = << "prune_data" >>]
    /\ pc' = [pc EXCEPT ![p] = "done"]
    /\ ret' = [ret EXCEPT ![p] =
                  IF PruneRaises(d, w) THEN Raised ELSE RetList(prune_data(d, w, now))]
    /\ UNCHANGED << now, file, orphans, reading, loaded, tmp, track, hist >>

(***************************************************************************)
(* The caller takes the result; the process stops.                         *)
(***************************************************************************)
Return(p) ==
    /\ Live(p)
    /\ UNCHANGED hwvars
    /\ UNCHANGED << last, calc, diag >>
    /\ report' = NoReport
    /\ pc[p] = "done"
    /\ orphans' = IF tmp[p].kind = "none" THEN orphans ELSE orphans + 1
    /\ pc' = [pc EXCEPT ![p] = "idle"]
    /\ op' = [op EXCEPT ![p] = "none"]
    /\ reading' = [reading EXCEPT ![p] = NotADict]
    /\ wdays' = [wdays EXCEPT ![p] = 0]
    /\ tprune' = [tprune EXCEPT ![p] = 0]
    /\ loaded' = [loaded EXCEPT ![p] = << >>]
    /\ data' = [data EXCEPT ![p] = << >>]
    /\ tmp' = [tmp EXCEPT ![p] = NoTmp]
    /\ pre' = [pre EXCEPT ![p] = Absent]
    /\ steps' = [steps EXCEPT ![p] = << >>]
    /\ ret' = [ret EXCEPT ![p] = NoRet]
    /\ UNCHANGED << now, file, track, hist >>

\* the process is stopped in the middle of a call; what is on disk stays
Crash(p) ==
    /\ Live(p)
    /\ UNCHANGED hwvars
    /\ UNCHANGED auxvars
    /\ pc[p] \in {"load", "sort", "mkstemp", "dump", "rename", "cleanup"}
    /\ op' = [op EXCEPT ![p] = "crashed"]
    /\ UNCHANGED << now, file, orphans, pc, reading, wdays, tprune, loaded, data,
                    tmp, pre, steps, ret, track, hist >>

(***************************************************************************)
(* The sequential specification: one process calls the store.              *)
(***************************************************************************)
Next ==
    \/ Tick
    \/ \E p \in Sequential, r \in AppendInputs(now), w \in AppendWindows :
          AppendCall(p, r, w)
    \/ \E p \in Sequential : AppendLoadPrune(p)
    \/ \E p \in Sequential, d \in SaveInputs : SaveCall(p, d)
    \/ \E p \in Sequential : SaveSort(p)
    \/ \E p \in Sequential : Mkstemp(p)
    \/ \E p \in Sequential : MkstempFails(p)
    \/ \E p \in Sequential : Dump(p)
    \/ \E p \in Sequential : DumpFails(p)
    \/ \E p \in Sequential : Rename(p)
    \/ \E p \in Sequential : RenameFails(p)
    \/ \E p \in Sequential : Cleanup(p)
    \/ \E p \in Sequential : CleanupFails(p)
    \/ \E p \in Sequential : LoadCall(p)
    \/ \E p \in Sequential, d \in PruneInputs, w \in PruneWindows : PruneCall(p, d, w)
    \/ \E p \in Sequential : Return(p)
    \/ \E p \in Sequential : Crash(p)

Spec == Init /\ [][Next]_vars

(***************************************************************************)
(* The retention scenario: one writer appends readings to a store that     *)
(* starts without a file, always with the same positive window, and the    *)
(* readings it appended successfully are recorded.                         *)
(***************************************************************************)
\* successful appends recorded in one behaviour
MaxAppends == 3

ScenarioWindows == {1}

ScenarioInit ==
    /\ Idle
    /\ file = Absent
    /\ track = TRUE

ScenarioNext ==
    \/ Tick
    \/ \E p \in Sequential, r \in AppendInputs(now), w \in ScenarioWindows :
          Len(hist) < MaxAppends /\ AppendCall(p, r, w)
    \/ \E p \in Sequential : AppendLoadPrune(p)
    \/ \E p \in Sequential : SaveSort(p)
    \/ \E p \in Sequential : Mkstemp(p)
    \/ \E p \in Sequential : MkstempFails(p)
    \/ \E p \in Sequential : Dump(p)
    \/ \E p \in Sequential : DumpFails(p)
    \/ \E p \in Sequential : Rename(p)
    \/ \E p \in Sequential : Cleanup(p)
    \/ \E p \in Sequential : Return(p)

SpecScenario == ScenarioInit /\ [][ScenarioNext]_vars


(***************************************************************************)
(* The concurrent specification: while one process appends, another loads  *)
(* the same file, with nothing between them but the file system.           *)
(***************************************************************************)
Readers == {"w2"}

ConcInputs(t) == {Rd(18, "iso", "7.0"), Rd(t, "iso", "null"), Rd(20, "iso", "obj")}

ConcWindows == {1}

ConcFiles == {Absent, Garbage, ArrayFile(<< Rd(19, "iso", "7.0") >>)}

ConcInit ==
    /\ Idle
    /\ file \in ConcFiles
    /\ track = FALSE

ConcNext ==
    \/ Tick
    \/ \E p \in Sequential, r \in ConcInputs(now), w \in ConcWindows :
          AppendCall(p, r, w)
    \/ \E p \in Sequential : AppendLoadPrune(p)
    \/ \E p \in Sequential : SaveSort(p)
    \/ \E p \in Sequential : Mkstemp(p)
    \/ \E p \in Sequential : MkstempFails(p)
    \/ \E p \in Sequential : Dump(p)
    \/ \E p \in Sequential : DumpFails(p)
    \/ \E p \in Sequential : Rename(p)
    \/ \E p \in Sequential : RenameFails(p)
    \/ \E p \in Sequential : Cleanup(p)
    \/ \E p \in Sequential : CleanupFails(p)
    \/ \E p \in Sequential : Return(p)
    \/ \E p \in Sequential : Crash(p)
    \/ \E q \in Readers : LoadCall(q)
    \/ \E q \in Readers : Return(q)

SpecConc == ConcInit /\ [][ConcNext]_vars

(***************************************************************************)
(* The race: two processes run append_reading on the same file, with       *)
(* nothing between them but the file system.                               *)
(***************************************************************************)
RaceInputs == {Rd(19, "iso", "7.0"), Rd(20, "iso", "null")}

RaceWindows == {1}

RaceFiles == {Absent, ArrayFile(<< Rd(19, "iso", "null") >>)}

RaceInit ==
    /\ Idle
    /\ file \in RaceFiles
    /\ track = TRUE

RaceNext ==
    \/ \E p \in Procs, r \in RaceInputs, w \in RaceWindows :
          Len(hist) < MaxAppends /\ AppendCall(p, r, w)
    \/ \E p \in Procs : AppendLoadPrune(p)
    \/ \E p \in Procs : SaveSort(p)
    \/ \E p \in Procs : Mkstemp(p)
    \/ \E p \in Procs : Dump(p)
    \/ \E p \in Procs : Rename(p)
    \/ \E p \in Procs : Return(p)

SpecRace == RaceInit /\ [][RaceNext]_vars

(***************************************************************************)
(* The round trip: one process saves series, and saves again what          *)
(* load_data returns; every file is one the store wrote.                   *)
(***************************************************************************)
RoundTripInputs ==
    { << >>,
      << Rd(21, "iso", "7.0"), Rd(20, "iso", "7.0") >>,
      << Rd(20, "iso", "null"), Rd(20, "iso", "7.0") >>,
      << Rd(19, "Z", "7.0"), Rd(18, "Z", "7.0"), Rd(18, "iso", "7.0") >>,
      << Rd(20, "iso", "7.0"), NullStamped >>,
      << NullStamped >>,
      << Rd(20, "iso", "obj") >> }

\* save_data(load_data())
Resave(p) ==
    /\ Live(p)
    /\ UNCHANGED hwvars
    /\ UNCHANGED auxvars
    /\ pc[p] = "idle"
    /\ op' = [op EXCEPT ![p] = "resave"]
    /\ pre' = [pre EXCEPT ![p] = file]
    /\ steps' = [steps EXCEPT ![p] = << "load_data" >>]
    /\ IF LoadRaises(file)
          THEN /\ pc' = [pc EXCEPT ![p] = "done"]
               /\ ret' = [ret EXCEPT ![p] = Raised]
               /\ UNCHANGED << loaded, data >>
          ELSE /\ pc' = [pc EXCEPT ![p] = "sort"]
               /\ loaded' = [loaded EXCEPT ![p] = load_data(file)]
               /\ data' = [data EXCEPT ![p] = load_data(file)]
               /\ ret' = ret
    /\ UNCHANGED << now, file, orphans, reading, wdays, tprune, tmp, track, hist >>

RoundTripInit ==
    /\ Idle
    /\ file = Absent
    /\ track = FALSE

RoundTripNext ==
    \/ Tick
    \/ \E p \in Sequential, d \in RoundTripInputs : SaveCall(p, d)
    \/ \E p \in Sequential : Resave(p)
    \/ \E p \in Sequential : SaveSort(p)
    \/ \E p \in Sequential : Mkstemp(p)
    \/ \E p \in Sequential : MkstempFails(p)
    \/ \E p \in Sequential : Dump(p)
    \/ \E p \in Sequential : DumpFails(p)
    \/ \E p \in Sequential : Rename(p)
    \/ \E p \in Sequential : RenameFails(p)
    \/ \E p \in Sequential : Cleanup(p)
    \/ \E p \in Sequential : Return(p)

SpecRoundTrip == RoundTripInit /\ [][RoundTripNext]_vars

(***************************************************************************)
(* The reports on the series file: get_recent_data, get_data_stats and     *)
(* validate_data_integrity.                                                *)
(***************************************************************************)
\* get_recent_data(days) raises what load_data raises, and TypeError when
\* a null timestamp is compared with the cutoff string (172)
RecentRaises(f, days) ==
    \/ LoadRaises(f)
    \/ days > 0 /\ \E i \in 1..Len(load_data(f)) : ~Key(load_data(f)[i]).str

\* get_recent_data(days) at clock reading t (159-174)
get_recent_data(f, days, t) ==
    IF days <= 0 THEN load_data(f)
    ELSE SelectSeq(load_data(f), LAMBDA r : StrGE(Key(r).s, cutoff_iso(t, days)))

RecentCall(p, days) ==
    /\ Live(p)
    /\ UNCHANGED hwvars
    /\ UNCHANGED auxvars
    /\ pc[p] = "idle"
    /\ op' = [op EXCEPT ![p] = "recent"]
    /\ wdays' = [wdays EXCEPT ![p] = days]
    /\ tprune' = [tprune EXCEPT ![p] = now]
    /\ pre' = [pre EXCEPT ![p] = file]
    /\ steps' = [steps EXCEPT ![p] = << "load_data" >>]
    /\ pc' = [pc EXCEPT ![p] = "done"]
    /\ ret' = [ret EXCEPT ![p] =
                  IF RecentRaises(file, days) THEN Raised
                  ELSE RetList(get_recent_data(file, days, now))]
    /\ UNCHANGED << now, file, orphans, reading, loaded, data, tmp, track, hist >>

RaisedReport == [NoReport EXCEPT !.kind = "raised"]

\* get_data_stats(): total_readings of what load_data returns
get_data_stats(f) ==
    IF LoadRaises(f) THEN RaisedReport
    ELSE [NoReport EXCEPT !.kind = "stats", !.total = Len(load_data(f))]

StatsCall(p) ==
    /\ Live(p)
    /\ UNCHANGED hwvars
    /\ pc[p] = "idle"
    /\ op' = [op EXCEPT ![p] = "stats"]
    /\ pre' = [pre EXCEPT ![p] = file]
    /\ steps' = [steps EXCEPT ![p] = << "load_data" >>]
    /\ pc' = [pc EXCEPT ![p] = "done"]
    /\ report' = get_data_stats(file)
    /\ UNCHANGED << last, calc, diag >>
    /\ UNCHANGED << now, file, orphans, reading, wdays, tprune, loaded, data, tmp,
                    ret, track, hist >>

\* the entry gets a timestamp error and is passed over (301-313)
TimestampError(r) == ~r.dict \/ ~r.has \/ r.ts.sp = "bad"

\* reading["timestamp"].replace raises AttributeError on a null (310), which
\* only the handler of the whole function catches (335)
Aborting(r) == r.dict /\ r.has /\ r.ts.kind = "null"

\* the entries the loop of 300-324 gets through
Checked(d) ==
    IF \E i \in 1..Len(d) : Aborting(d[i])
       THEN SubSeq(d, 1, (CHOOSE i \in 1..Len(d) :
                             Aborting(d[i]) /\ \A j \in 1..(i - 1) : ~Aborting(d[j])) - 1)
       ELSE d

Keys(d) == [i \in 1..Len(d) |-> Key(d[i]).s]

\* validate_data_integrity(file_path)
validate_data_integrity(f) ==
    IF LoadRaises(f)
       THEN [kind |-> "validate", valid |-> FALSE, errors |-> 1, chrono |-> FALSE,
             total |-> 0, valid_readings |-> 0]
       ELSE LET d == load_data(f)
                c == Checked(d)
                aborted == Len(c) < Len(d)
                passed == {i \in 1..Len(c) : TimestampError(c[i])}
                nonnumeric == {i \in 1..Len(c) :
                                  ~TimestampError(c[i]) /\ c[i].ph = "text"}
                errors == Cardinality(passed) + Cardinality(nonnumeric)
                             + (IF aborted THEN 1 ELSE 0)
            IN  [kind |-> "validate",
                 valid |-> errors = 0,
                 errors |-> errors,
                 chrono |-> ~aborted /\ Keys(d) # Keys(SortByTimestamp(d)),
                 total |-> Len(d),
                 valid_readings |-> Len(c) - Cardinality(passed)]

ValidateCall(p) ==
    /\ Live(p)
    /\ UNCHANGED hwvars
    /\ pc[p] = "idle"
    /\ op' = [op EXCEPT ![p] = "validate"]
    /\ pre' = [pre EXCEPT ![p] = file]
    /\ steps' = [steps EXCEPT ![p] = << "load_data" >>]
    /\ pc' = [pc EXCEPT ![p] = "done"]
    /\ report' = validate_data_integrity(file)
    /\ UNCHANGED << last, calc, diag >>
    /\ UNCHANGED << now, file, orphans, reading, wdays, tprune, loaded, data, tmp,
                    ret, track, hist >>

\* what the series file may hold when a report is asked for: nothing, what
\* does not parse, entries out of order, entries of the older logger
ReportFiles ==
    { Absent, Garbage,
      ArrayFile(<< Rd(21, "iso", "7.0"), Rd(20, "iso", "7.0") >>),
      ArrayFile(<< Rd(18, "Z", "7.0"), Rd(20, "iso", "7.0") >>),
      ArrayFile(<< NotADict >>) }

\* arguments of save_data before a report
ReportSaves ==
    { << Rd(0, "bad", "7.0"), NoTimestamp, Rd(20, "iso", "text") >>,
      << Rd(20, "iso", "text") >>,
      << Rd(19, "Z", "7.0"), Rd(18, "Z", "7.0") >>,
      << Rd(20, "iso", "7.0"), Rd(21, "iso", "null") >>,
      << NullStamped >> }

\* days of get_recent_data
ReportDays == {-1, 0, 1}

ReportsInit ==
    /\ Idle
    /\ file \in ReportFiles
    /\ track = FALSE

ReportsNext ==
    \/ Tick
    \/ \E p \in Sequential, d \in ReportSaves : SaveCall(p, d)
    \/ \E p \in Sequential : SaveSort(p)
    \/ \E p \in Sequential : Mkstemp(p)
    \/ \E p \in Sequential : Dump(p)
    \/ \E p \in Sequential : Rename(p)
    \/ \E p \in Sequential : LoadCall(p)
    \/ \E p \in Sequential, days \in ReportDays : RecentCall(p, days)
    \/ \E p \in Sequential : StatsCall(p)
    \/ \E p \in Sequential : ValidateCall(p)
    \/ \E p \in Sequential : Return(p)

SpecReports == ReportsInit /\ [][ReportsNext]_vars

(***************************************************************************)
(* The daemon entry point (pi/sensor_logger.py): take_reading reads the    *)
(* sensors, loads data.json, appends, prunes and writes data.json in       *)
(* place.                                                                  *)
(***************************************************************************)
\* WINDOW_DAYS, as the environment sets it
WINDOW_DAYS == 1

\* load_data() of the daemon: [] unless the file holds a JSON array, which
\* is returned in the order stored
daemon_load_data(f) == IF f.kind = "array" THEN f.data ELSE << >>

\* the test of one entry in prune_old_data (294-302): fromisoformat of the
\* string without its trailing 'Z' is a naive datetime, whose comparison
\* with the aware cutoff raises TypeError; that, like every other
\* exception of the loop body, passes the entry over
KeptByDaemon(r, t) ==
    /\ r.dict
    /\ r.has
    /\ r.ts.kind = "str"
    /\ r.ts.sp = "iso"
    /\ r.ts.t >= MinusDays(t, WINDOW_DAYS)

\* prune_old_data(data) at clock reading t
prune_old_data(d, t) ==
    IF d = << >> THEN d ELSE SelectSeq(d, LAMBDA r : KeptByDaemon(r, t))

\* payloads of the reading read_sensors returns: numbers, or nulls
DaemonPayloads == {"7.0", "null"}

\* reading = read_sensors(); data = load_data(); data.append(reading);
\* data = prune_old_data(data) (383-392)
DaemonTakeReading(p, payload) ==
    /\ Live(p)
    /\ UNCHANGED hwvars
    /\ UNCHANGED auxvars
    /\ pc[p] = "idle"
    /\ file.kind = "array" => Len(file.data) <= MaxLen
    /\ op' = [op EXCEPT ![p] = "take_reading"]
    /\ reading' = [reading EXCEPT ![p] = Rd(now, "iso", payload)]
    /\ wdays' = [wdays EXCEPT ![p] = WINDOW_DAYS]
    /\ tprune' = [tprune EXCEPT ![p] = now]
    /\ pre' = [pre EXCEPT ![p] = file]
    /\ loaded' = [loaded EXCEPT ![p] = daemon_load_data(file)]
    /\ data' = [data EXCEPT ![p] =
                   prune_old_data(Append(daemon_load_data(file),
                                         Rd(now, "iso", payload)), now)]
    /\ steps' = [steps EXCEPT ![p] = << "load_data", "append", "prune_old_data" >>]
    /\ pc' = [pc EXCEPT ![p] = "open"]
    /\ UNCHANGED << now, file, orphans, tmp, ret, track, hist >>

\* open(DATA_FILE, 'w') (270): the file is created or truncated
DaemonOpen(p) ==
    /\ Live(p)
    /\ UNCHANGED hwvars
    /\ UNCHANGED auxvars
    /\ pc[p] = "open"
    /\ file' = PartialFile
    /\ steps' = [steps EXCEPT ![p] = Append(@, "open")]
    /\ pc' = [pc EXCEPT ![p] = "write"]
    /\ UNCHANGED << now, orphans, op, reading, wdays, tprune, loaded, data, tmp,
                    pre, ret, track, hist >>

\* open raises; save_data prints the error (275-276)
DaemonOpenFails(p) ==
    /\ Live(p)
    /\ UNCHANGED hwvars
    /\ UNCHANGED auxvars
    /\ pc[p] = "open"
    /\ steps' = [steps EXCEPT ![p] = Append(@, "open_failed")]
    /\ pc' = [pc EXCEPT ![p] = "done"]
    /\ UNCHANGED << now, file, orphans, op, reading, wdays, tprune, loaded, data,
                    tmp, pre, ret, track, hist >>

\* json.dump(data, f, indent=2, default=str) and the close of the file
DaemonDump(p) ==
    /\ Live(p)
    /\ UNCHANGED hwvars
    /\ UNCHANGED auxvars
    /\ pc[p] = "write"
    /\ file' = ArrayFile(data[p])
    /\ steps' = [steps EXCEPT ![p] = Append(@, "dump")]
    /\ pc' = [pc EXCEPT ![p] = "done"]
    /\ UNCHANGED << now, orphans, op, reading, wdays, tprune, loaded, data, tmp,
                    pre, ret, track, hist >>

\* the write raises (no space left); save_data prints the error
DaemonDumpFails(p) ==
    /\ Live(p)
    /\ UNCHANGED hwvars
    /\ UNCHANGED auxvars
    /\ pc[p] = "write"
    /\ steps' = [steps EXCEPT ![p] = Append(@, "dump_failed")]
    /\ pc' = [pc EXCEPT ![p] = "done"]
    /\ UNCHANGED << now, file, orphans, op, reading, wdays, tprune, loaded, data,
                    tmp, pre, ret, track, hist >>

\* the daemon is stopped between the open and the end of the write
DaemonCrash(p) ==
    /\ Live(p)
    /\ UNCHANGED hwvars
    /\ UNCHANGED auxvars
    /\ pc[p] \in {"open", "write"}
    /\ op' = [op EXCEPT ![p] = "crashed"]
    /\ UNCHANGED << now, file, orphans, pc, reading, wdays, tprune, loaded, data,
                    tmp, pre, steps, ret, track, hist >>

\* data.json as the daemon finds it: absent, unparseable, written by the
\* older logger, written by itself
DaemonFiles ==
    { Absent, Garbage,
      ArrayFile(<< Rd(20, "Z", "7.0") >>),
      ArrayFile(<< Rd(17, "iso", "7.0"), Rd(20, "iso", "null") >>) }

DaemonInit ==
    /\ Idle
    /\ file \in DaemonFiles
    /\ track = FALSE

DaemonNext ==
    \/ Tick
    \/ \E p \in Sequential, payload \in DaemonPayloads : DaemonTakeReading(p, payload)
    \/ \E p \in Sequential : DaemonOpen(p)
    \/ \E p \in Sequential : DaemonOpenFails(p)
    \/ \E p \in Sequential : DaemonDump(p)
    \/ \E p \in Sequential : DaemonDumpFails(p)
    \/ \E p \in Sequential : DaemonCrash(p)
    \/ \E p \in Sequential : Return(p)
    \/ \E q \in Readers : LoadCall(q)
    \/ \E q \in Readers : Return(q)

SpecDaemon == DaemonInit /\ [][DaemonNext]_vars

(***************************************************************************)
(* The orchestrator: AquaponicsSensors is constructed and read_all runs    *)
(* its cycle, one hardware read after the other.                           *)
(***************************************************************************)
\* (ph_channel, tds_channel) as configured
ChannelInputs == { << 0, 1 >>, << 4, 1 >>, << 0, -1 >> }

\* what the imports and the bus initialisation of RealADS1115 do
HwOutcomes == {"ok", "ImportError", "NotImplementedError", "RuntimeError",
               "ValueError", "OSError"}

\* what a transaction on the bus of the real ADC yields
BusReadings ==
    { Num(-100), Num(0), Num(1800), Num(5000), Num(5100), NaN, Inf,
      Exc("OSError") }

\* the 1-Wire device as a read of the real sensor finds it
Devices ==
    { NoDevice, Vanished, IoError, OneLine, CrcNo, NoField, Unparseable,
      NanField, Reads(-20000), Reads(22505), Reads(60000), Reads(70000) }

\* AquaponicsSensors.__init__
Construct(chan, mock, env, hw, w1) ==
    /\ sens.state = "none"
    /\ LET adc == create_adc(mock, env, hw)
       IN  sens' = [state |-> IF adc \in Exceptions THEN "raised" ELSE "built",
                    ph_channel |-> chan[1],
                    tds_channel |-> chan[2],
                    adc |-> adc,
                    temp |-> IF adc \in Exceptions THEN "none"
                             ELSE create_temp_sensor(mock, env, w1),
                    mock |-> mock, env |-> env, hw |-> hw, w1 |-> w1]
    /\ UNCHANGED << spc, temp_c, ph, tds, acq, comp, out >>
    /\ UNCHANGED storevars
    /\ UNCHANGED auxvars

\* self.adc.read_voltage(channel)
AdcRead(channel, bus) ==
    IF sens.adc = "mock" THEN MockReadVoltage(channel)
    ELSE RealReadVoltage(channel, bus)

\* self.temp_sensor.read_celsius()
TempRead(dev) ==
    IF sens.temp = "mock" THEN Num(mock_temp) ELSE read_celsius(dev)

\* one hardware read, as recorded, and the clock reading it was made at
Acquired(src, dev, raw) == [src |-> src, dev |-> dev, raw |-> raw, t |-> now]

\* read_temperature, raw being what read_celsius returned or raised
read_temperature(raw) ==
    IF IsExc(raw) THEN None
    ELSE IF raw.k # "none" /\ validate_sensor_range(raw, temp_range[1], temp_range[2])
            THEN Num(RoundDiv(raw.v, 10) * 10)
    ELSE None

\* read_ph, raw being what read_voltage returned or raised
read_ph(raw) ==
    IF IsExc(raw) THEN None
    ELSE LET p == voltage_to_ph(raw, ph_slope, ph_intercept)
         IN  IF p.k # "none" /\ validate_sensor_range(p, ph_range[1], ph_range[2])
                THEN p ELSE None

\* the temperature read_tds compensates with (110-115): the argument, a
\* second read_temperature() when the argument is None, 25.0 when that
\* is None too
TdsTemperature(t, again) ==
    IF t.k # "none" THEN t
    ELSE IF again.k # "none" THEN again
    ELSE Num(reference_temp)

\* lines 117-122 of read_tds
ConvertTds(voltage, t) ==
    LET x == voltage_to_tds(voltage, t, tds_multiplier)
    IN  IF x.k # "none" /\ validate_sensor_range(x, tds_range[1], tds_range[2])
           THEN x ELSE None

\* read_all is called
ReadAllCall ==
    /\ sens.state = "built"
    /\ spc \in {"idle", "done"}
    /\ spc' = "temp"
    /\ temp_c' = None
    /\ ph' = None
    /\ tds' = None
    /\ acq' = << >>
    /\ comp' = None
    /\ out' = NoReading
    /\ last' = IF out.kind = "reading" THEN out.t ELSE last
    /\ UNCHANGED sens
    /\ UNCHANGED storevars
    /\ UNCHANGED << calc, diag, report >>

\* temp_c = self.read_temperature()
ReadTemperature(dev) ==
    /\ spc = "temp"
    /\ acq' = Append(acq, Acquired("temp", dev, TempRead(dev)))
    /\ temp_c' = read_temperature(TempRead(dev))
    /\ spc' = "ph"
    /\ UNCHANGED << sens, ph, tds, comp, out >>
    /\ UNCHANGED storevars
    /\ UNCHANGED auxvars

\* mutant: the exception of read_voltage leaves read_ph and read_all
ReadPhUncaught(bus) ==
    /\ spc = "ph"
    /\ acq' = Append(acq, Acquired("ph", NoDevice, AdcRead(sens.ph_channel, bus)))
    /\ ph' = read_ph(AdcRead(sens.ph_channel, bus))
    /\ IF IsExc(AdcRead(sens.ph_channel, bus))
          THEN /\ spc' = "done"
               /\ out' = [NoReading EXCEPT !.kind = "raised"]
          ELSE /\ spc' = "tds"
               /\ out' = out
    /\ UNCHANGED << sens, temp_c, tds, comp >>
    /\ UNCHANGED storevars
    /\ UNCHANGED auxvars

\* ph = self.read_ph()
ReadPh(bus) ==
    /\ spc = "ph"
    /\ acq' = Append(acq, Acquired("ph", NoDevice, AdcRead(sens.ph_channel, bus)))
    /\ ph' = read_ph(AdcRead(sens.ph_channel, bus))
    /\ spc' = "tds"
    /\ UNCHANGED << sens, temp_c, tds, comp, out >>
    /\ UNCHANGED storevars
    /\ UNCHANGED auxvars

\* tds = self.read_tds(temp_c)
ReadTds(bus, dev) ==
    /\ spc = "tds"
    /\ LET voltage == AdcRead(sens.tds_channel, bus)
           first == Acquired("tds", NoDevice, voltage)
           again == read_temperature(TempRead(dev))
       IN  IF IsExc(voltage)
              THEN /\ acq' = Append(acq, first)
                   /\ tds' = None
                   /\ comp' = None
              ELSE /\ acq' = IF temp_c.k = "none"
                                THEN acq \o << first, Acquired("temp", dev, TempRead(dev)) >>
                                ELSE Append(acq, first)
                   /\ comp' = TdsTemperature(temp_c, again)
                   /\ tds' = ConvertTds(voltage, TdsTemperature(temp_c, again))
    /\ spc' = "assemble"
    /\ UNCHANGED << sens, temp_c, ph, out >>
    /\ UNCHANGED storevars
    /\ UNCHANGED auxvars

\* mutant: the timestamp is the clock reading of the first acquisition
ReadAllReturnStampedFirst ==
    /\ spc = "assemble"
    /\ out' = [kind |-> "reading", t |-> acq[1].t, ph |-> ph, tds |-> tds,
               temp_c |-> temp_c]
    /\ spc' = "done"
    /\ UNCHANGED << sens, temp_c, ph, tds, acq, comp >>
    /\ UNCHANGED storevars
    /\ UNCHANGED auxvars

\* the reading is assembled and returned (141-149)
ReadAllReturn ==
    /\ spc = "assemble"
    /\ out' = [kind |-> "reading", t |-> now, ph |-> ph, tds |-> tds,
               temp_c |-> temp_c]
    /\ spc' = "done"
    /\ UNCHANGED << sens, temp_c, ph, tds, acq, comp >>
    /\ UNCHANGED storevars
    /\ UNCHANGED auxvars

SensorsInit ==
    /\ Idle
    /\ file = Absent
    /\ track = FALSE

SensorsNext ==
    \/ \E chan \in ChannelInputs, mock \in BOOLEAN, env \in BOOLEAN,
          hw \in HwOutcomes, w1 \in BOOLEAN : Construct(chan, mock, env, hw, w1)
    \/ ReadAllCall
    \/ \E dev \in Devices : ReadTemperature(dev)
    \/ \E bus \in BusReadings : ReadPh(bus)
    \/ \E bus \in BusReadings, dev \in Devices : ReadTds(bus, dev)
    \/ ReadAllReturn

SpecSensors == SensorsInit /\ [][SensorsNext]_vars

(***************************************************************************)
(* The cycle in time: read_all is called again and again while the clock   *)
(* advances between its hardware reads.                                    *)
(***************************************************************************)
CycleDevices == {CrcNo, Reads(22505)}
CycleBus == {Num(1800), Exc("OSError")}

CycleNext ==
    \/ Tick
    \/ \E mock \in BOOLEAN : Construct(<< 0, 1 >>, mock, FALSE, "ok", TRUE)
    \/ ReadAllCall
    \/ \E dev \in CycleDevices : ReadTemperature(dev)
    \/ \E bus \in CycleBus : ReadPh(bus)
    \/ \E bus \in CycleBus, dev \in CycleDevices : ReadTds(bus, dev)
    \/ ReadAllReturn

SpecCycle == SensorsInit /\ [][CycleNext]_vars

(***************************************************************************)
(* The diagnostic operation test_sensors (sensors.py 151-217).             *)
(***************************************************************************)
\* f"error: {e}"
ErrorStatus(x) ==
    IF x.k = "ValueError" THEN "error: ValueError" ELSE "error: OSError"

\* "ok" if value is not None else "error"
ValueStatus(value) == IF value.k # "none" THEN "ok" ELSE "error"

\* read_tds(temp_c), raw being what read_voltage returned or raised and
\* again what the second read_temperature() returned
read_tds(raw, t, again) ==
    IF IsExc(raw) THEN None ELSE ConvertTds(raw, TdsTemperature(t, again))

\* the entry of a metric whose raw read returned voltage
Entry(voltage, value) ==
    [status |-> ValueStatus(value), voltage |-> voltage, value |-> value]

\* the entry the except branch writes
ExceptEntry(x) == [status |-> ErrorStatus(x), voltage |-> None, value |-> None]

\* mutant: the except branch reports the bare word
ExceptEntryBare(x) == [status |-> "error", voltage |-> None, value |-> None]

\* mutant of test_sensors: see ExceptEntryBare
TestSensorsBare(b1, b2, d1, b3, b4, d2) ==
    /\ sens.state = "built"
    /\ spc \in {"idle", "done"}
    /\ LET phv == AdcRead(sens.ph_channel, b1)
           tdsv == AdcRead(sens.tds_channel, b3)
       IN  diag' =
             [kind |-> "results",
              ph |-> IF IsExc(phv) THEN ExceptEntryBare(phv)
                     ELSE Entry(phv, read_ph(AdcRead(sens.ph_channel, b2))),
              temperature |-> Entry(None, read_temperature(TempRead(d1))),
              tds |-> IF IsExc(tdsv) THEN ExceptEntryBare(tdsv)
                      ELSE Entry(tdsv, read_tds(AdcRead(sens.tds_channel, b4), None,
                                                read_temperature(TempRead(d2))))]
    /\ UNCHANGED << last, calc, report >>
    /\ UNCHANGED hwvars
    /\ UNCHANGED storevars

\* test_sensors(): b1 and b3 are what the bus yields to the raw reads of
\* 174 and 201, b2 and b4 what it yields to the reads inside read_ph and
\* read_tds, d1 and d2 the 1-Wire device at read_temperature (190) and at
\* the read_temperature inside read_tds()
TestSensors(b1, b2, d1, b3, b4, d2) ==
    /\ sens.state = "built"
    /\ spc \in {"idle", "done"}
    /\ LET phv == AdcRead(sens.ph_channel, b1)
           tdsv == AdcRead(sens.tds_channel, b3)
       IN  diag' =
             [kind |-> "results",
              ph |-> IF IsExc(phv) THEN ExceptEntry(phv)
                     ELSE Entry(phv, read_ph(AdcRead(sens.ph_channel, b2))),
              temperature |-> Entry(None, read_temperature(TempRead(d1))),
              tds |-> IF IsExc(tdsv) THEN ExceptEntry(tdsv)
                      ELSE Entry(tdsv, read_tds(AdcRead(sens.tds_channel, b4), None,
                                                read_temperature(TempRead(d2))))]
    /\ UNCHANGED << last, calc, report >>
    /\ UNCHANGED hwvars
    /\ UNCHANGED storevars

\* what the bus and the 1-Wire device yield during a diagnosis
DiagBus == {Num(1800), Num(5100), Exc("OSError")}
DiagDevices == {CrcNo, Reads(22505), Reads(70000)}

DiagNext ==
    \/ \E chan \in ChannelInputs, mock \in BOOLEAN, w1 \in BOOLEAN :
          Construct(chan, mock, FALSE, "ok", w1)
    \/ \E b1 \in DiagBus, b2 \in DiagBus, d1 \in DiagDevices,
          b3 \in DiagBus, b4 \in DiagBus, d2 \in DiagDevices :
          TestSensors(b1, b2, d1, b3, b4, d2)

SpecDiag == SensorsInit /\ [][DiagNext]_vars

(***************************************************************************)
(* The conversions called on their own (conversions.py).                   *)
(***************************************************************************)
\* voltages, slopes and intercepts ph_from_voltage is called with
PhVoltages ==
    { None, NaN, Num(-1), Num(0), Num(400), Num(2500), Num(4200), Num(5000),
      Num(5001) }
PhSlopes == {-3333, -1, 0, 1, 3000}
PhIntercepts == {0, 12500, 14000}

\* conductivities and multipliers tds_from_ec is called with
EcInputs ==
    { None, NaN, Inf, Num(-10000), Num(0), Num(100000), Num(123456),
      Num(1000000), Num(1000001) }
Multipliers == {-5, 0, 5, 7, 10}

PhFromVoltageCall(voltage, slope, intercept) ==
    /\ calc' = [fn |-> "ph_from_voltage", x |-> voltage, a |-> slope,
                b |-> intercept, res |-> ph_from_voltage(voltage, slope, intercept)]
    /\ UNCHANGED << last, diag, report >>
    /\ UNCHANGED hwvars
    /\ UNCHANGED storevars

TdsFromEcCall(ec, multiplier) ==
    /\ calc' = [fn |-> "tds_from_ec", x |-> ec, a |-> multiplier, b |-> 0,
                res |-> tds_from_ec(ec, multiplier)]
    /\ UNCHANGED << last, diag, report >>
    /\ UNCHANGED hwvars
    /\ UNCHANGED storevars

ConversionsInit ==
    /\ Idle
    /\ file = Absent
    /\ track = FALSE

ConversionsNext ==
    \/ \E voltage \in PhVoltages, slope \in PhSlopes, intercept \in PhIntercepts :
          PhFromVoltageCall(voltage, slope, intercept)
    \/ \E ec \in EcInputs, multiplier \in Multipliers : TdsFromEcCall(ec, multiplier)

SpecConversions == ConversionsInit /\ [][ConversionsNext]_vars

(***************************************************************************)
(* Vocabulary of the properties.                                           *)
(***************************************************************************)
\* absent, or one complete JSON array
WellFormed(f) == f.kind \in {"absent", "array"}

Finished(p) == pc[p] = "done" /\ Live(p)

\* the call of p entered save_data
InSave(p) == \E i \in 1..Len(steps[p]) : steps[p][i] = "save_data"

Did(p, step) == \E i \in 1..Len(steps[p]) : steps[p][i] = step

Count(x, s) == Cardinality({i \in 1..Len(s) : s[i] = x})

\* the stored entries of a file, none when it holds no array
Entries(f) == IF f.kind = "array" THEN f.data ELSE << >>

\* no dict, or a dict without a 'timestamp' key
Rejectable(r) == ~r.dict \/ ~r.has

\* the entry carries a timestamp string, whose instant is then r.ts.t
Stamped(r) == r.dict /\ r.has /\ r.ts.kind = "str" /\ r.ts.sp \in {"iso", "Z"}

\* the timestamp's instant is at or after t minus w days
InWindow(r, t, w) == Stamped(r) /\ r.ts.t >= MinusDays(t, w)

\* ascending order of the instants
Chronological(s) ==
    \A i, j \in 1..Len(s) :
        (i < j /\ Stamped(s[i]) /\ Stamped(s[j])) => s[i].ts.t <= s[j].ts.t

(***************************************************************************)
(* C1.  No step of a save_data or append_reading call, failing or not,     *)
(* leaves the series file partially written: a file that is absent or one  *)
(* complete JSON array stays so, and a truncated file never appears, so a  *)
(* reader opening the file at any moment of a save finds a complete file.  *)
(***************************************************************************)
C1_NeverPartial ==
    [][ /\ file'.kind # "partial"
        /\ WellFormed(file) => WellFormed(file') ]_vars

\* while a save has written its temporary file and not yet renamed it,
\* another process has loaded the complete array the file still holds
C1_Witness ==
    \E p, q \in Procs :
        /\ pc[p] = "rename"
        /\ Live(p)
        /\ tmp[p].kind = "complete"
        /\ file.kind = "array"
        /\ file.data # tmp[p].data
        /\ Finished(q)
        /\ op[q] = "load"
        /\ ret[q] = RetList(file.data)
        /\ ret[q].l # << >>

(***************************************************************************)
(* C2.  As claimed: a save_data that fails returns False without raising,  *)
(* leaves the target as it was and leaves no temporary file of its own.    *)
(***************************************************************************)
C2_Original ==
    \A p \in Procs :
        (Finished(p) /\ InSave(p)) =>
            /\ ret[p].kind = "bool"
            /\ ret[p].b = FALSE => (file = pre[p] /\ tmp[p] = NoTmp)

(***************************************************************************)
(* C2, amended.  A save_data that fails returns False without raising and  *)
(* leaves the target as it was; its temporary file is gone unless the      *)
(* os.unlink that removes it failed as well.                               *)
(***************************************************************************)
C2_Amended ==
    \A p \in Procs :
        (Finished(p) /\ InSave(p)) =>
            /\ ret[p].kind = "bool"
            /\ ret[p].b = FALSE =>
                  /\ file = pre[p]
                  /\ tmp[p] # NoTmp => Did(p, "unlink_failed")

\* a save failed after its temporary file was written and removed the file
C2_Witness ==
    \E p \in Procs :
        /\ Finished(p)
        /\ ret[p] = RetBool(FALSE)
        /\ Did(p, "rename_failed")
        /\ Did(p, "unlink")
        /\ tmp[p] = NoTmp
        /\ file = pre[p]

(***************************************************************************)
(* C3.  A process stopped after the temporary file was written completely  *)
(* and before the rename leaves the target as the save found it.           *)
(***************************************************************************)
C3_InterruptedSave ==
    \A p \in Procs :
        (op[p] = "crashed" /\ pc[p] = "rename" /\ tmp[p].kind = "complete")
            => file = pre[p]

C3_Witness ==
    \E p \in Procs :
        /\ op[p] = "crashed"
        /\ pc[p] = "rename"
        /\ tmp[p].kind = "complete"
        /\ file.kind = "array"
        /\ tmp[p].data # file.data

(***************************************************************************)
(* C4.  append_reading of a value that is no dict, or of a dict without a  *)
(* 'timestamp' key, returns False at once: no load, prune or save step     *)
(* runs, no file is created and the series file is as the call found it.   *)
(***************************************************************************)
C4_RejectedUntouched ==
    \A p \in Procs :
        (op[p] = "append" /\ Rejectable(reading[p])) =>
            /\ pc[p] = "done"
            /\ ret[p] = RetBool(FALSE)
            /\ steps[p] = << >>
            /\ tmp[p] = NoTmp
            /\ file = pre[p]

C4_Witness ==
    \E p \in Procs :
        /\ Finished(p)
        /\ op[p] = "append"
        /\ reading[p] = NoTimestamp
        /\ file = Absent

(***************************************************************************)
(* C5.  A successful append_reading(r) ran load, append, prune, save in    *)
(* that order, and the file then holds exactly the entries the file held   *)
(* at the call plus r, minus those the retention filter removes.           *)
(***************************************************************************)
\* the retention filter of the call of p keeps x
Retained(p, x) == wdays[p] <= 0 \/ KeptByPrune(x, tprune[p], wdays[p])

C5_AppendUnit ==
    \A p \in Procs :
        (Finished(p) /\ op[p] = "append" /\ ret[p] = RetBool(TRUE)) =>
            /\ steps[p] = << "load_data", "append", "prune_data", "save_data",
                             "mkstemp", "dump", "rename" >>
            /\ file.kind = "array"
            /\ \A x \in Range(file.data) \cup Range(Entries(pre[p])) \cup {reading[p]} :
                  Count(x, file.data) =
                      IF Retained(p, x)
                         THEN Count(x, Entries(pre[p])) + (IF x = reading[p] THEN 1 ELSE 0)
                         ELSE 0

\* an append that kept an entry, dropped another and added its own
C5_Witness ==
    \E p \in Procs :
        /\ Finished(p)
        /\ op[p] = "append"
        /\ ret[p] = RetBool(TRUE)
        /\ Len(Entries(pre[p])) = 2
        /\ Len(file.data) = 2
        /\ Count(reading[p], file.data) = 1
        /\ Count(reading[p], Entries(pre[p])) = 0

(***************************************************************************)
(* C6.  As claimed: append_reading of any reading that carries a timestamp *)
(* on a non-existent file, under any retention window, creates a file      *)
(* holding exactly that reading.                                           *)
(***************************************************************************)
C6_Original ==
    \A p \in Procs :
        (Finished(p) /\ op[p] = "append" /\ ret[p] = RetBool(TRUE) /\ pre[p] = Absent)
            => file = ArrayFile(<< reading[p] >>)

(***************************************************************************)
(* C6, amended.  A successful append_reading on a non-existent file        *)
(* creates the file; it holds exactly the appended reading when retention  *)
(* is disabled or the reading's timestamp is not below the cutoff, and an  *)
(* empty array when the reading itself is older than the window.           *)
(***************************************************************************)
C6_Amended ==
    \A p \in Procs :
        (Finished(p) /\ op[p] = "append" /\ ret[p] = RetBool(TRUE) /\ pre[p] = Absent)
            => file = ArrayFile(IF Retained(p, reading[p])
                                   THEN << reading[p] >> ELSE << >>)

C6_Witness ==
    \E p \in Procs :
        /\ Finished(p)
        /\ op[p] = "append"
        /\ ret[p] = RetBool(TRUE)
        /\ pre[p] = Absent
        /\ wdays[p] > 0
        /\ file = ArrayFile(<< reading[p] >>)

(***************************************************************************)
(* C7.  As claimed: prune_data returns its input when window_days <= 0     *)
(* and otherwise exactly the entries whose instant is at or after now      *)
(* minus window_days, in their order, whatever the spelling.               *)
(***************************************************************************)
C7_PruneExact ==
    \A p \in Procs :
        (Finished(p) /\ op[p] = "prune" /\ ret[p].kind = "list") =>
            ret[p].l = IF wdays[p] <= 0 THEN data[p]
                       ELSE SelectSeq(data[p],
                                      LAMBDA x : InWindow(x, tprune[p], wdays[p]))

(***************************************************************************)
(* C8.  As claimed: what load_data returns and what a successful save_data *)
(* or append_reading leaves in the file is in ascending order of the       *)
(* instants of the timestamps.                                             *)
(***************************************************************************)
C8_ChronologicalOrder ==
    \A p \in Procs :
        /\ (Finished(p) /\ op[p] = "load" /\ ret[p].kind = "list")
              => Chronological(ret[p].l)
        /\ (Finished(p) /\ op[p] \in {"save", "append"} /\ ret[p] = RetBool(TRUE))
              => Chronological(Entries(file))

(***************************************************************************)
(* C9.  As claimed: after successful appends by one writer with a window   *)
(* of W > 0 days the file holds exactly the appended readings whose        *)
(* instants are within W days of the last append, in ascending order.      *)
(***************************************************************************)
C9_RetentionScenario ==
    \A p \in Procs :
        (track /\ Finished(p) /\ op[p] = "append" /\ ret[p] = RetBool(TRUE)) =>
            /\ Chronological(Entries(file))
            /\ \A x \in Range(hist) \cup Range(Entries(file)) :
                  Count(x, Entries(file)) =
                      IF InWindow(x, tprune[p], wdays[p]) THEN Count(x, hist) ELSE 0

KeptAndAdded(p) ==
    /\ \A x \in Range(Entries(pre[p])) :
          (wdays[p] <= 0 \/ InWindow(x, tprune[p], wdays[p]))
              => Count(x, Entries(file)) >= Count(x, Entries(pre[p]))
    /\ \A x \in Range(Entries(file)) :
          Count(x, Entries(file)) <=
              Count(x, Entries(pre[p])) + (IF x = reading[p] THEN 1 ELSE 0)

C11_Original ==
    \A p \in Procs :
        (Finished(p) /\ op[p] = "append") =>
            /\ KeptAndAdded(p)
            /\ ~WellFormed(pre[p]) => file = pre[p]

(***************************************************************************)
(* C11, amended.  An append_reading leaves in the file every entry it      *)
(* found there whose instant is inside the retention window, unmodified,   *)
(* and adds nothing but its own reading; a file that load_data could not   *)
(* read stays as it is until an append's save succeeds, which replaces it  *)
(* by an array holding at most the appended reading.                       *)
(***************************************************************************)
C11_Amended ==
    \A p \in Procs :
        (Finished(p) /\ op[p] = "append") =>
            /\ KeptAndAdded(p)
            /\ (~WellFormed(pre[p]) /\ ret[p] # RetBool(TRUE)) => file = pre[p]
            /\ (~WellFormed(pre[p]) /\ ret[p] = RetBool(TRUE)) =>
                  /\ file.kind = "array"
                  /\ Len(file.data) <= 1

\* an append that kept an entry inside the window, dropped an older one
\* and added its own reading
C11_Witness ==
    \E p \in Procs :
        /\ Finished(p)
        /\ op[p] = "append"
        /\ ret[p] = RetBool(TRUE)
        /\ wdays[p] > 0
        /\ \E x, y \in Range(Entries(pre[p])) :
              /\ InWindow(x, tprune[p], wdays[p])
              /\ x # reading[p]
              /\ Count(x, Entries(file)) = 1
              /\ Stamped(y)
              /\ ~InWindow(y, tprune[p], wdays[p])
              /\ Count(y, Entries(file)) = 0
        /\ Count(reading[p], Entries(file)) = 1

(***************************************************************************)
(* C12.  With two processes appending to the same file, the file changes   *)
(* only by the rename of one writer, which installs exactly the complete   *)
(* series that writer dumped; the file is never malformed, and a writer's  *)
(* temporary file holds that writer's series and no other's.  An update    *)
(* can be lost: the last rename wins.                                      *)
(***************************************************************************)
C12_LastSaveWins ==
    [][ /\ WellFormed(file')
        /\ \A p \in Procs :
              tmp'[p].kind = "complete" => tmp'[p].data = data'[p]
        /\ file' # file =>
              \E p \in Procs :
                  /\ pc[p] = "rename"
                  /\ pc'[p] = "done"
                  /\ ret'[p] = RetBool(TRUE)
                  /\ tmp[p] = CompleteTmp(data[p])
                  /\ file' = ArrayFile(data[p])
                  /\ \A q \in Procs \ {p} : pc'[q] = pc[q] /\ tmp'[q] = tmp[q]
      ]_vars

\* both appends returned True and the file lacks the reading of one
C12_Witness ==
    \E p, q \in Procs :
        /\ p # q
        /\ Finished(p) /\ op[p] = "append" /\ ret[p] = RetBool(TRUE)
        /\ Finished(q) /\ op[q] = "append" /\ ret[q] = RetBool(TRUE)
        /\ InWindow(reading[p], tprune[p], wdays[p])
        /\ InWindow(reading[p], tprune[q], wdays[q])
        /\ reading[p] # reading[q]
        /\ file = ArrayFile(data[q])
        /\ Count(reading[p], Entries(file)) = 0
        /\ Count(reading[q], Entries(file)) = 1

(***************************************************************************)
(* C13.  Saving what load_data returns from a file that save_data wrote    *)
(* leaves the file as it was: save(load(save(series))) = save(series).     *)
(***************************************************************************)
C13_SaveLoadSave ==
    \A p \in Procs :
        (Finished(p) /\ op[p] = "resave" /\ ret[p] = RetBool(TRUE)
                     /\ pre[p].kind = "array")
            => file = pre[p]

\* a series of two entries, one of them stamped like the other, saved again
C13_Witness ==
    \E p \in Procs :
        /\ Finished(p)
        /\ op[p] = "resave"
        /\ ret[p] = RetBool(TRUE)
        /\ pre[p].kind = "array"
        /\ Len(pre[p].data) = 2
        /\ pre[p].data[1] # pre[p].data[2]
        /\ Key(pre[p].data[1]) = Key(pre[p].data[2])
        /\ file = pre[p]

(***************************************************************************)
(* C14.  As claimed: whatever the series file holds and whatever reading   *)
(* with a 'timestamp' key is appended, append_reading returns True or      *)
(* False and load_data returns a list; neither raises.                     *)
(***************************************************************************)
C14_NeverRaises ==
    \A p \in Procs :
        /\ (Finished(p) /\ op[p] = "append") => ret[p].kind = "bool"
        /\ (Finished(p) /\ op[p] = "load") => ret[p].kind = "list"

(***************************************************************************)
(* Vocabulary of the sensor properties.                                    *)
(***************************************************************************)
\* the hardware reads of one source in the cycle
ReadsOf(src) == SelectSeq(acq, LAMBDA a : a.src = src)

\* a raw value the source cannot be trusted for
BadVoltage(raw) == raw.k # "num" \/ raw.v < 0 \/ raw.v > 5000
BadTemperature(raw) == raw.k # "num" \/ raw.v < -10000 \/ raw.v > 60000

\* a read of the 1-Wire device that misses
Miss(dev) ==
    dev.state \in {"no_device", "vanished", "io_error", "one_line", "crc_no",
                   "no_field", "unparseable"}

(***************************************************************************)
(* C15.  read_all never raises and returns one Reading; each of the three  *)
(* metrics is acquired in every cycle, and a metric is null exactly when   *)
(* its own acquisition or conversion failed, whatever became of the other  *)
(* two.                                                                    *)
(***************************************************************************)
C15_ReadAllTotal ==
    /\ out.kind # "raised"
    /\ spc = "done" =>
          /\ out.kind = "reading"
          /\ Len(ReadsOf("temp")) >= 1
          /\ Len(ReadsOf("ph")) = 1
          /\ Len(ReadsOf("tds")) = 1
          /\ out.temp_c.k = "none" <=> BadTemperature(ReadsOf("temp")[1].raw)
          /\ out.ph.k = "none" <=>
                voltage_to_ph(ReadsOf("ph")[1].raw, ph_slope, ph_intercept).k = "none"
          /\ out.tds.k = "none" <=>
                \/ IsExc(ReadsOf("tds")[1].raw)
                \/ voltage_to_tds(ReadsOf("tds")[1].raw, comp, tds_multiplier).k = "none"

\* the pH read raised, and the temperature and the TDS were still reported
C15_Witness ==
    /\ spc = "done"
    /\ out.kind = "reading"
    /\ IsExc(ReadsOf("ph")[1].raw)
    /\ out.ph = None
    /\ out.temp_c.k = "num"
    /\ out.tds.k = "num"

(***************************************************************************)
(* C16.  In the Reading that read_all returns ph is null or in [0,14],     *)
(* tds null or in [0,5000] and temp_c null or in [-10,60], and a metric    *)
(* whose raw value is negative, over range, NaN or infinite is null.       *)
(***************************************************************************)
C16_ReadingRanges ==
    spc = "done" =>
        /\ out.ph.k = "none" \/ Between(out.ph, 0, 14000)
        /\ out.tds.k = "none" \/ Between(out.tds, 0, 50000)
        /\ out.temp_c.k = "none" \/ Between(out.temp_c, -10000, 60000)
        /\ BadVoltage(ReadsOf("ph")[1].raw) => out.ph = None
        /\ BadVoltage(ReadsOf("tds")[1].raw) => out.tds = None
        /\ BadTemperature(ReadsOf("temp")[1].raw) => out.temp_c = None

\* a cycle with a temperature below range, a NaN pH voltage and a TDS
\* voltage above range
C16_Witness ==
    /\ spc = "done"
    /\ ReadsOf("temp")[1].raw = Num(-20000)
    /\ ReadsOf("ph")[1].raw = NaN
    /\ ReadsOf("tds")[1].raw = Num(5100)
    /\ out.ph = None /\ out.tds = None /\ out.temp_c = None

(***************************************************************************)
(* C17.  As claimed: the temperature that compensates the TDS conversion   *)
(* is the Reading's temp_c when that is present and 25 degrees when it is  *)
(* null; no second read of the temperature feeds the TDS value.            *)
(***************************************************************************)
C17_CompensationTemperature ==
    (spc = "done" /\ comp.k # "none") =>
        comp = IF out.temp_c.k = "num" THEN out.temp_c ELSE Num(reference_temp)

(***************************************************************************)
(* C18.  As claimed: no AquaponicsSensors object exists whose pH or TDS    *)
(* channel is outside 0..3; the construction fails.                        *)
(***************************************************************************)
C18_InvalidChannelFatal ==
    sens.state = "built" =>
        /\ sens.ph_channel \in Channels
        /\ sens.tds_channel \in Channels

(***************************************************************************)
(* C19.  As claimed: create_adc and create_temp_sensor never raise; each   *)
(* returns the mock when the mock flag is set, when MOCK_HARDWARE=1 or     *)
(* when the real adapter cannot be constructed, and the real adapter       *)
(* otherwise.                                                              *)
(***************************************************************************)
C19_FactoriesNeverRaise ==
    sens.state # "none" =>
        /\ sens.state # "raised"
        /\ sens.adc = IF sens.mock \/ sens.env \/ sens.hw # "ok"
                         THEN "mock" ELSE "real"
        /\ sens.temp = IF sens.mock \/ sens.env \/ ~sens.w1
                          THEN "mock" ELSE "real"

(***************************************************************************)
(* C20.  As claimed: a read of the real DS18B20 that misses (no device, a  *)
(* device file that cannot be read, no YES, no or an unparseable t= field) *)
(* returns None and does not raise.                                        *)
(***************************************************************************)
C20_ReadCelsiusMiss ==
    \A i \in 1..Len(acq) :
        (acq[i].src = "temp" /\ sens.temp = "real" /\ Miss(acq[i].dev))
            => acq[i].raw = None


(***************************************************************************)
(* C21: for a voltage in [0, 5] and a slope other than 0, ph_from_voltage  *)
(* returns a value in [0, 14] or nothing, and nothing exactly when         *)
(* slope * voltage + intercept lies outside [0, 14]; it returns nothing    *)
(* for a voltage outside [0, 5] and for a slope of 0.                      *)
(***************************************************************************)
\* slope * voltage + intercept, in millionths
RawPh(c) == c.a * c.x.v + 1000 * c.b

C21_PhFromVoltage ==
    calc.fn = "ph_from_voltage" =>
        /\ \/ calc.res = None
           \/ calc.res.k = "num" /\ 0 <= calc.res.v /\ calc.res.v <= 14000
        /\ IF calc.x.k = "num" /\ 0 <= calc.x.v /\ calc.x.v <= 5000 /\ calc.a # 0
              THEN calc.res = None <=> (RawPh(calc) < 0 \/ RawPh(calc) > 14000000)
              ELSE calc.res = None

\* the linear result is 14.0004: outside the range, though it rounds to 14.0
C21_Witness ==
    /\ calc.fn = "ph_from_voltage"
    /\ calc.x = Num(400)
    /\ calc.a = 1
    /\ calc.b = 14000
    /\ calc.res = None

(***************************************************************************)
(* C22: tds_from_ec(ec, m) returns nothing exactly when ec is absent,      *)
(* ec < 0, m <= 0 or ec * m > 5000; otherwise it returns ec * m rounded to *)
(* one fractional digit, a value in [0, 5000].                             *)
(***************************************************************************)
C22_TdsFromEc ==
    calc.fn = "tds_from_ec" =>
        LET absent ==
                \/ calc.x.k = "none"
                \/ calc.x.k = "num" /\ calc.x.v < 0
                \/ calc.a <= 0
                \/ calc.x.k = "inf"
                \/ calc.x.k = "num" /\ calc.x.v * calc.a > 5000000
        IN  IF absent THEN calc.res = None
            ELSE /\ calc.res.k = "num"
                 /\ 0 <= calc.res.v /\ calc.res.v <= 50000
                 /\ calc.res.v = RoundDiv(calc.x.v * calc.a, 100)

(***************************************************************************)
(* C23.  As claimed: get_recent_data(days), for days > 0, returns exactly  *)
(* the entries load_data returns whose instant is at or after now minus    *)
(* days, in ascending order of the instants; and neither it nor load_data, *)
(* get_data_stats or validate_data_integrity touches the series file.      *)
(***************************************************************************)
ReadOnlyOps == {"recent", "load", "stats", "validate"}

\* what get_recent_data returned is the part of the loaded series inside
\* the window, oldest first
RecentIsExact ==
    \A p \in Procs :
        (Finished(p) /\ op[p] = "recent" /\ ret[p].kind = "list" /\ wdays[p] > 0) =>
            /\ ret[p].l = SelectSeq(load_data(pre[p]),
                                    LAMBDA x : InWindow(x, tprune[p], wdays[p]))
            /\ Chronological(ret[p].l)

\* the four operations leave the file and the directory as they found them
ReportsReadOnly ==
    \A p \in Procs :
        (Finished(p) /\ op[p] \in ReadOnlyOps) =>
            /\ file = pre[p]
            /\ tmp[p] = NoTmp
            /\ orphans = 0

C23_RecentExact == RecentIsExact /\ ReportsReadOnly

(***************************************************************************)
(* C24.  As claimed: every entry of the file a successful append_reading   *)
(* or save_data leaves is an object with a timestamp string and a payload  *)
(* of numbers or nulls.                                                    *)
(***************************************************************************)
C24_FourFields ==
    \A p \in Procs :
        (Finished(p) /\ op[p] \in {"save", "append"} /\ ret[p] = RetBool(TRUE)) =>
            \A i \in 1..Len(Entries(file)) :
                /\ Entries(file)[i].dict
                /\ Entries(file)[i].has
                /\ Entries(file)[i].ts.kind = "str"
                /\ Entries(file)[i].ph \in {"7.0", "null"}

(***************************************************************************)
(* C25.  As claimed: validate_data_integrity gives the chronological-order *)
(* warning exactly when the entries stored in the file are not in          *)
(* ascending order of their timestamps.                                    *)
(***************************************************************************)
C25_ChronologicalWarning ==
    \A p \in Procs :
        (Finished(p) /\ op[p] = "validate" /\ pre[p].kind = "array"
            /\ \A i \in 1..Len(pre[p].data) : Stamped(pre[p].data[i])) =>
               (report.chrono <=> ~Chronological(pre[p].data))

(***************************************************************************)
(* C30.  As claimed: validate_data_integrity counts in valid_readings only *)
(* entries without an error, so that valid is true exactly when            *)
(* valid_readings equals total_readings; valid_readings never exceeds      *)
(* total_readings.  Stated for a file that load_data returns a series of.  *)
(***************************************************************************)
C30_ValidReadings ==
    \A p \in Procs :
        (Finished(p) /\ op[p] = "validate" /\ ~LoadRaises(pre[p])) =>
            /\ report.valid <=> (report.valid_readings = report.total)
            /\ report.valid_readings <= report.total

Metrics == {"ph", "temperature", "tds"}

C27_Original ==
    diag.kind = "results" =>
        /\ \A m \in Metrics :
              diag[m].status = IF diag[m].value.k # "none" THEN "ok" ELSE "error"
        /\ file = Absent

(***************************************************************************)
(* C27, amended: the status is 'ok' exactly when the converted value is    *)
(* present; otherwise it is 'error', or, when the raw voltage read of ph   *)
(* or tds raised, 'error: ' followed by the message of the exception, the  *)
(* voltage and the value of the entry then being absent.  The series file  *)
(* is not written.                                                         *)
(***************************************************************************)
C27_Amended ==
    diag.kind = "results" =>
        /\ \A m \in Metrics :
              /\ diag[m].status = "ok" <=> diag[m].value.k # "none"
              /\ diag[m].status \in {"ok", "error", "error: ValueError", "error: OSError"}
              /\ diag[m].status \in {"error: ValueError", "error: OSError"} =>
                    m \in {"ph", "tds"}
              /\ m \in {"ph", "tds"} =>
                    (diag[m].voltage = None <=>
                        diag[m].status \in {"error: ValueError", "error: OSError"})
        /\ (sens.ph_channel \notin Channels) => diag.ph.status = "error: ValueError"
        /\ (sens.tds_channel \notin Channels) => diag.tds.status = "error: ValueError"
        /\ diag.temperature.status \in {"ok", "error"}
        /\ file = Absent

\* the raw read of the pH channel raised, the other two metrics were read
C27_Witness ==
    /\ diag.kind = "results"
    /\ diag.ph.status = "error: ValueError"
    /\ diag.temperature.status = "ok"
    /\ diag.tds.status = "error"

(***************************************************************************)
(* C28.  As claimed: while take_reading of pi/sensor_logger.py writes      *)
(* data.json, no truncated or partially written data.json is on disk for a *)
(* crash to leave or a reader to open, and after a write that failed the   *)
(* file holds what it held before.                                         *)
(***************************************************************************)
C28_DaemonAtomic ==
    /\ file.kind # "partial"
    /\ \A p \in Procs :
          (op[p] = "take_reading" /\ Finished(p) /\ Did(p, "dump_failed")) =>
              file = pre[p]

(***************************************************************************)
(* C29.  As claimed: prune_old_data of pi/sensor_logger.py keeps every     *)
(* entry whose instant is at or after now minus WINDOW_DAYS, in the 'Z'    *)
(* spelling as in the '+00:00' spelling, and drops only entries that are   *)
(* older or whose timestamp does not parse.                                *)
(***************************************************************************)
C29_DaemonPrune ==
    \A p \in Procs :
        (op[p] = "take_reading" /\ Did(p, "prune_old_data")) =>
            data[p] = SelectSeq(Append(loaded[p], reading[p]),
                                LAMBDA x : InWindow(x, tprune[p], WINDOW_DAYS))

====
